---- MODULE Spec2Model ----
(***************************************************************************)
(* Model of deployment/tasks/run-simulation.ts: the LedgerWatcher loop of  *)
(* runSimulation, the EventStore it fills, the signing policy protocol     *)
(* (defineNextSigningPolicy), the voting round protocol (runVotingRound)   *)
(* and the finalization (fakeFinalize).                                    *)
(*                                                                         *)
(* Time is the wall clock in seconds.  The model keeps Date.now() and the  *)
(* block timestamps equal (the simulation syncs the network time with the  *)
(* system time before it starts), and advances it in steps of TickSec.     *)
(* A timer fires at the first instant of the model that is not before its  *)
(* deadline; the "+ 1" millisecond of the timer delays is below the        *)
(* resolution of the clock and left out.                                   *)
(***************************************************************************)
EXTENDS Integers, Sequences, FiniteSets, TLC

VARIABLES
  now,                     \* Date.now(), in seconds
  chainEpoch,              \* the authority's getCurrentRewardEpochId()
  initializedVotingRound,  \* EventStore.initializedVotingRound
  rewardEpochEvents,       \* EventStore.rewardEpochEvents: Map<number, string[]>
  signingPolicies,         \* Map<number, ISigningPolicy> of runSimulation
  registeredAccounts,      \* RegisteredAccount[]
  env,                     \* the four SKIP_ settings read by processEnv
  watcher,                 \* the while (true) loop of runSimulation
  spTimer,                 \* the pending timer of runSigningPolicyProtocol
  spRuns,                  \* the calls of defineNextSigningPolicy, in start order
  vrTimer,                 \* the pending timer of scheduleVotingEpochActions
  vrRuns,                  \* the calls of runVotingRound, in start order
  orTimer,                 \* the pending timer of scheduleOfferRewardsActions
  orRuns                   \* the calls of runOfferRewards, in start order

vars == <<now, chainEpoch, initializedVotingRound, rewardEpochEvents, signingPolicies,
          registeredAccounts, env, watcher, spTimer, spRuns, vrTimer, vrRuns,
          orTimer, orRuns>>

ledgerVars == <<initializedVotingRound, rewardEpochEvents, signingPolicies>>
orVars == <<orTimer, orRuns>>

----------------------------------------------------------------------------
(* Program constants *)

REWARD_EPOCH_DURATION_IN_VOTING_EPOCHS == 5
VOTING_EPOCH_DURATION_SEC == 20
REWARD_EPOCH_DURATION_IN_SEC == REWARD_EPOCH_DURATION_IN_VOTING_EPOCHS * VOTING_EPOCH_DURATION_SEC
FIRST_REWARD_EPOCH_START_VOTING_ROUND_ID == 1000
newSigningPolicyInitializationStartSeconds == 45

(* Bounds of the model *)

TickSec == 10            \* resolution of the clock, seconds
MaxTicksLedger == 2      \* clock steps taken in SpecLedger
MaxLedgerLen == 3        \* entries recorded in the ledger
MaxLogs == 2             \* decoded logs carried by one heartbeat response
NumAccounts == 2         \* voterCount

----------------------------------------------------------------------------
(* EpochSettings: the time arithmetic of the epoch clock, in seconds.      *)
(* The origin of the clock is the start of reward epoch 0.                 *)

rewardEpochStartSec == 0
rewardEpochDurationSec == REWARD_EPOCH_DURATION_IN_SEC
votingEpochDurationSec == VOTING_EPOCH_DURATION_SEC
firstVotingEpochStartSec ==
  rewardEpochStartSec - FIRST_REWARD_EPOCH_START_VOTING_ROUND_ID * votingEpochDurationSec

votingEpochForTime(t) == (t - firstVotingEpochStartSec) \div votingEpochDurationSec
rewardEpochForTime(t) == (t - rewardEpochStartSec) \div rewardEpochDurationSec
votingEpochStartMs(id) == firstVotingEpochStartSec + id * votingEpochDurationSec
rewardEpochStartMs(id) == rewardEpochStartSec + id * rewardEpochDurationSec
nextVotingEpochStartMs(t) == votingEpochStartMs(votingEpochForTime(t) + 1)
nextRewardEpochStartMs(t) == rewardEpochStartMs(rewardEpochForTime(t) + 1)

----------------------------------------------------------------------------
(* Maps.  A Map<number, X> is a function whose domain is the set of keys.  *)

MapSet(m, k, v) == [x \in (DOMAIN m) \cup {k} |-> IF x = k THEN v ELSE m[x]]
MapHas(m, k) == k \in DOMAIN m

\* rewardEvents.get(rewardEpochId)?.includes(name)
Includes(s, x) == \E i \in 1..Len(s) : s[i] = x
hasEvent(rewardEvents, rewardEpochId, name) ==
  /\ MapHas(rewardEvents, rewardEpochId)
  /\ Includes(rewardEvents[rewardEpochId], name)

----------------------------------------------------------------------------
(* Event names *)

FsmEvents == {"RandomAcquisitionStarted", "VotePowerBlockSelected", "RewardEpochStarted",
              "NewVotingRoundInitiated"}

SPI == "SigningPolicyInitialized"
IRO == "InflationRewardsOffered"

\* All sequences over S of length at most n
RECURSIVE SeqsUpTo(_, _)
SeqsUpTo(S, n) ==
  IF n = 0 THEN {<<>>}
  ELSE LET shorter == SeqsUpTo(S, n - 1)
       IN shorter \cup {Append(s, x) : s \in {t \in shorter : Len(t) = n - 1}, x \in S}

----------------------------------------------------------------------------
(* Accounts.  An address is a hex string; the model keeps which account it *)
(* is the address of, and whether it is written in the mixed-case          *)
(* (checksummed) form or in lower case.                                    *)

Addr(n) == [hex |-> n, checksum |-> TRUE]
toLowerCase(a) == [a EXCEPT !.checksum = FALSE]
Acct(n) == [address |-> Addr(n), privateKey |-> n]

\* registerAccounts: account 0 is the governance, voter i takes accounts 10 + 4i ..
accountOffset == 10
RegisteredAccount(i) ==
  [identity         |-> Acct(accountOffset + 4 * i),
   submit           |-> Acct(accountOffset + 4 * i + 1),
   submitSignatures |-> Acct(accountOffset + 4 * i + 2),
   signingPolicy    |-> Acct(accountOffset + 4 * i + 3)]
registerAccounts(voterCount) == [k \in 1..voterCount |-> RegisteredAccount(k - 1)]

\* extractSigningPolicy(logArg): the fields of the event, as numbers
extractSigningPolicy(logArg) ==
  [rewardEpochId      |-> logArg.rewardEpochId,
   startVotingRoundId |-> logArg.startVotingRoundId,
   threshold          |-> logArg.threshold,
   voters             |-> logArg.voters,
   weights            |-> logArg.weights]

----------------------------------------------------------------------------
(* The LedgerWatcher: the while (true) loop of runSimulation               *)

NoArgs == [none |-> TRUE]

\* decodeRawLogs(response, contract, eventName): the raw logs of the receipt that
\* the given contract emitted under the given name
decodeRawLogs(response, contract, eventName) ==
  IF contract = "relay" /\ eventName = SPI THEN response.relay
  ELSE IF contract = "ftsoRewardOffersManager" /\ eventName = IRO THEN response.offers
  ELSE <<>>

Store == [initializedVotingRound |-> initializedVotingRound,
          rewardEpochEvents |-> rewardEpochEvents,
          signingPolicies |-> signingPolicies]

\* an event name already in the list is not recorded again
processLogDeduplicates(log, timestamp, st) ==
  IF log.event = "NewVotingRoundInitiated"
  THEN LET votingRoundId == votingEpochForTime(timestamp)
       IN IF votingRoundId > st.initializedVotingRound
          THEN [st EXCEPT !.initializedVotingRound = votingRoundId]
          ELSE st
  ELSE LET rewardEpochId == rewardEpochForTime(timestamp)
           existing == IF MapHas(st.rewardEpochEvents, rewardEpochId)
                       THEN st.rewardEpochEvents[rewardEpochId] ELSE <<>>
           pushed == IF Includes(existing, log.event) THEN existing
                     ELSE Append(existing, log.event)
           st1 == [st EXCEPT !.rewardEpochEvents = MapSet(@, rewardEpochId, pushed)]
       IN IF log.event = SPI
          THEN LET signingPolicy == extractSigningPolicy(log.args)
               IN [st1 EXCEPT !.signingPolicies =
                                 MapSet(@, signingPolicy.rewardEpochId, signingPolicy)]
          ELSE st1

\* the round of the event is stored without the comparison
processLogOverwrites(log, timestamp, st) ==
  IF log.event = "NewVotingRoundInitiated"
  THEN [st EXCEPT !.initializedVotingRound = votingEpochForTime(timestamp)]
  ELSE LET rewardEpochId == rewardEpochForTime(timestamp)
           existing == IF MapHas(st.rewardEpochEvents, rewardEpochId)
                       THEN st.rewardEpochEvents[rewardEpochId] ELSE <<>>
           st1 == [st EXCEPT !.rewardEpochEvents =
                                MapSet(@, rewardEpochId, Append(existing, log.event))]
       IN IF log.event = SPI
          THEN LET signingPolicy == extractSigningPolicy(log.args)
               IN [st1 EXCEPT !.signingPolicies =
                                 MapSet(@, signingPolicy.rewardEpochId, signingPolicy)]
          ELSE st1

\* the name of a SigningPolicyInitialized event is recorded, its policy is not installed
processLogRecordsOnly(log, timestamp, st) ==
  IF log.event = "NewVotingRoundInitiated"
  THEN LET votingRoundId == votingEpochForTime(timestamp)
       IN IF votingRoundId > st.initializedVotingRound
          THEN [st EXCEPT !.initializedVotingRound = votingRoundId]
          ELSE st
  ELSE LET rewardEpochId == rewardEpochForTime(timestamp)
           existing == IF MapHas(st.rewardEpochEvents, rewardEpochId)
                       THEN st.rewardEpochEvents[rewardEpochId] ELSE <<>>
       IN [st EXCEPT !.rewardEpochEvents =
                        MapSet(@, rewardEpochId, Append(existing, log.event))]

processLog(log, timestamp, st) ==
  IF log.event = "NewVotingRoundInitiated"
  THEN LET votingRoundId == votingEpochForTime(timestamp)
       IN IF votingRoundId > st.initializedVotingRound
          THEN [st EXCEPT !.initializedVotingRound = votingRoundId]
          ELSE st
  ELSE LET rewardEpochId == rewardEpochForTime(timestamp)
           existing == IF MapHas(st.rewardEpochEvents, rewardEpochId)
                       THEN st.rewardEpochEvents[rewardEpochId] ELSE <<>>
           st1 == [st EXCEPT !.rewardEpochEvents =
                                MapSet(@, rewardEpochId, Append(existing, log.event))]
       IN IF log.event = SPI
          THEN LET signingPolicy == extractSigningPolicy(log.args)
               IN [st1 EXCEPT !.signingPolicies =
                                 MapSet(@, signingPolicy.rewardEpochId, signingPolicy)]
          ELSE st1

RECURSIVE processLogs(_, _, _)
processLogs(logs, timestamp, st) ==
  IF logs = <<>> THEN st
  ELSE processLogs(Tail(logs), timestamp, processLog(Head(logs), timestamp, st))

\* the logs that one pass of the loop hands to processLog, in order
collectedLogs(response) ==
  IF Len(response.logs) > 0
  THEN response.logs \o decodeRawLogs(response, "ftsoRewardOffersManager", IRO)
  ELSE decodeRawLogs(response, "relay", SPI)

\* What a heartbeat (daemonize) of the authority may answer: the logs of the
\* FlareSystemsManager that Truffle decodes, and the raw logs of the Relay and of the
\* FtsoRewardOffersManager in the same receipt.
FsmLog(name) == [event |-> name, args |-> NoArgs]
PolicyArgs(epoch, voters) ==
  [rewardEpochId      |-> epoch,
   startVotingRoundId |-> votingEpochForTime(rewardEpochStartMs(epoch)),
   threshold          |-> Len(voters) \div 2,
   voters             |-> voters,
   weights            |-> [i \in 1..Len(voters) |-> 1]]
RelayLog(epoch, voters) == [event |-> SPI, args |-> PolicyArgs(epoch, voters)]

VotersOf(accounts) == [i \in 1..Len(accounts) |-> accounts[i].signingPolicy.address]
LocalVoters == VotersOf(registeredAccounts)

Responses(names, maxLogs, relayVoters, offers, blockTimestamp, policyEpoch) ==
  {[logs |-> l, relay |-> r, offers |-> o, blockTimestamp |-> blockTimestamp] :
     l \in SeqsUpTo({FsmLog(n) : n \in names}, maxLogs),
     r \in {<<>>} \cup {<<RelayLog(policyEpoch, v)>> : v \in relayVoters},
     o \in {<<>>} \cup {<<FsmLog(n)>> : n \in offers}}

\* the number of entries of the ledger
RECURSIVE SumLen(_, _)
SumLen(m, keys) ==
  IF keys = {} THEN 0
  ELSE LET k == CHOOSE x \in keys : TRUE IN Len(m[k]) + SumLen(m, keys \ {k})
LedgerSize(rewardEvents) == SumLen(rewardEvents, DOMAIN rewardEvents)

NoTimer == -1
TimerDue(timer) == timer # NoTimer /\ timer <= now

\* The clock advances; a timer that is due fires first, and the block of a mined
\* heartbeat is read first.
Tick(step, maxNow) ==
  /\ now + step <= maxNow
  /\ ~TimerDue(spTimer) /\ ~TimerDue(vrTimer) /\ ~TimerDue(orTimer)
  /\ watcher.pc # "getBlock"
  /\ now' = now + step
  /\ UNCHANGED <<chainEpoch, ledgerVars, registeredAccounts, env, watcher,
                 spTimer, spRuns, vrTimer, vrRuns, orVars>>

\* const response = await c.flareSystemsManager.daemonize({ gas: 20000000 });
\* the transaction is mined at the current time, and the authority may move to the
\* reward epoch of the clock.  What the receipt carries is read by the next step.
Daemonize ==
  /\ watcher.pc = "daemonize"
  /\ watcher' = [pc |-> "getBlock", blockTimestamp |-> now, policyEpoch |-> chainEpoch + 1]
  /\ \E e \in {chainEpoch} \cup
              (IF rewardEpochForTime(now) > chainEpoch THEN {chainEpoch + 1} ELSE {}) :
       chainEpoch' = e
  /\ UNCHANGED <<now, ledgerVars, registeredAccounts, env, spTimer, spRuns, vrTimer, vrRuns,
                 orVars>>

\* the daemonize call is rejected: the loop has no handler around it
DaemonizeFails ==
  /\ watcher.pc = "daemonize"
  /\ watcher' = [pc |-> "failed", blockTimestamp |-> 0, policyEpoch |-> 0]
  /\ UNCHANGED <<now, chainEpoch, ledgerVars, registeredAccounts, env,
                 spTimer, spRuns, vrTimer, vrRuns, orVars>>

\* the ledger after one pass of the loop has handed its logs to processLog
afterResponse(response, st) ==
  processLogs(collectedLogs(response), response.blockTimestamp, st)

\* const blockTimestamp = +(await hre.web3.eth.getBlock(...)).timestamp; then every
\* collected log goes through processLog, and the loop sleeps until the next poll
ProcessResponse(names, maxLogs, relayVoters, offers, maxLedger) ==
  /\ watcher.pc = "getBlock"
  /\ \E response \in Responses(names, maxLogs, relayVoters, offers,
                                watcher.blockTimestamp, watcher.policyEpoch) :
       LET st == afterResponse(response, Store)
       IN /\ LedgerSize(st.rewardEpochEvents) <= maxLedger
          /\ initializedVotingRound' = st.initializedVotingRound
          /\ rewardEpochEvents' = st.rewardEpochEvents
          /\ signingPolicies' = st.signingPolicies
  /\ watcher' = [pc |-> "daemonize", blockTimestamp |-> 0, policyEpoch |-> 0]
  /\ UNCHANGED <<now, chainEpoch, registeredAccounts, env, spTimer, spRuns, vrTimer, vrRuns,
                 orVars>>

GetBlockFails ==
  /\ watcher.pc = "getBlock"
  /\ watcher' = [pc |-> "failed", blockTimestamp |-> 0, policyEpoch |-> 0]
  /\ UNCHANGED <<now, chainEpoch, ledgerVars, registeredAccounts, env,
                 spTimer, spRuns, vrTimer, vrRuns, orVars>>

----------------------------------------------------------------------------
(* fakeFinalize: the signing keys, in the order of the policy's voters     *)

\* registeredAccounts.find(x => x.signingPolicy.address.toLowerCase() == voter.toLowerCase()):
\* the index of the first such account, 0 when there is none
find(accounts, voter) ==
  LET hits == {i \in 1..Len(accounts) :
                 toLowerCase(accounts[i].signingPolicy.address) = toLowerCase(voter)}
  IN IF hits = {} THEN 0 ELSE CHOOSE i \in hits : \A j \in hits : i <= j

\* the keys in the order of the local accounts instead
privateKeysInLocalOrder(voters, accounts) ==
  LET present == SelectSeq(accounts, LAMBDA x :
                   \E k \in 1..Len(voters) :
                     toLowerCase(x.signingPolicy.address) = toLowerCase(voters[k]))
  IN [k \in 1..Len(present) |-> present[k].signingPolicy.privateKey]

RECURSIVE privateKeysInOrder(_, _)
privateKeysInOrder(voters, accounts) ==
  IF voters = <<>> THEN <<>>
  ELSE LET acc == find(accounts, Head(voters))
       IN (IF acc # 0 THEN <<accounts[acc].signingPolicy.privateKey>> ELSE <<>>)
            \o privateKeysInOrder(Tail(voters), accounts)

----------------------------------------------------------------------------
(* The VotingRoundDriver: scheduleVotingEpochActions and runVotingRound    *)

MaxTicksRound == 3       \* clock steps taken in SpecRound
MaxFailures == 1         \* rejected submissions, over all runs

otherVars == <<chainEpoch, ledgerVars, registeredAccounts, env, watcher, orVars>>

Call(op, acc, ok) == [op |-> op, acc |-> acc, ok |-> ok]
Failures(run) == Cardinality({k \in 1..Len(run.log) : ~run.log[k].ok})
RECURSIVE AllFailures(_)
AllFailures(runs) == IF runs = <<>> THEN 0 ELSE Failures(Head(runs)) + AllFailures(Tail(runs))
Outcomes == IF AllFailures(vrRuns) < MaxFailures THEN {TRUE, FALSE} ELSE {TRUE}

\* the timer is armed again one voting epoch after the firing
VrStartFixedDelay ==
  /\ TimerDue(vrTimer)
  /\ vrTimer' = now + votingEpochDurationSec
  /\ vrRuns' = Append(vrRuns,
       [now |-> now,
        votingRoundId |-> votingEpochForTime(now),
        rewardEpochId |-> rewardEpochForTime(now),
        skipSubmit |-> env.SKIP_VOTING_EPOCH_ACTIONS,
        skipFinalisation |-> env.SKIP_FINALIZATIONS,
        pc |-> "awaitInit", i |-> 1, log |-> <<>>])
  /\ UNCHANGED <<now, otherVars, spTimer, spRuns>>

\* the timer of scheduleVotingEpochActions fires: it is armed again for the next voting
\* epoch start, and runVotingRound starts with now = Date.now()
VrStart ==
  /\ TimerDue(vrTimer)
  /\ vrTimer' = nextVotingEpochStartMs(now)
  /\ vrRuns' = Append(vrRuns,
       [now |-> now,
        votingRoundId |-> votingEpochForTime(now),
        rewardEpochId |-> rewardEpochForTime(now),
        skipSubmit |-> env.SKIP_VOTING_EPOCH_ACTIONS,
        skipFinalisation |-> env.SKIP_FINALIZATIONS,
        pc |-> "awaitInit", i |-> 1, log |-> <<>>])
  /\ UNCHANGED <<now, otherVars, spTimer, spRuns>>

\* while (votingRoundId < events.initializedVotingRound) await sleep(500);
awaitsInitialization(votingRoundId, initialized) == votingRoundId < initialized

\* the run marks its own round as initialized instead of waiting for the watcher
VrAwaitInitMarksRound(r) ==
  /\ vrRuns[r].pc = "awaitInit"
  /\ initializedVotingRound' = vrRuns[r].votingRoundId
  /\ vrRuns' = [vrRuns EXCEPT ![r].pc = "getRoot"]
  /\ UNCHANGED <<now, chainEpoch, rewardEpochEvents, signingPolicies, registeredAccounts,
                 env, watcher, orVars, spTimer, spRuns, vrTimer>>

VrAwaitInit(r) ==
  /\ vrRuns[r].pc = "awaitInit"
  /\ ~awaitsInitialization(vrRuns[r].votingRoundId, initializedVotingRound)
  /\ vrRuns' = [vrRuns EXCEPT ![r].pc = "getRoot"]
  /\ UNCHANGED <<now, otherVars, spTimer, spRuns, vrTimer>>

\* the commits are made whatever skipSubmit says
VrGetRootAlwaysSubmits(r) ==
  /\ vrRuns[r].pc = "getRoot"
  /\ vrRuns' = [vrRuns EXCEPT ![r].pc = "submit1", ![r].i = 1]
  /\ UNCHANGED <<now, otherVars, spTimer, spRuns, vrTimer>>

\* const previousMerkleRoot = await c.relay.getConfirmedMerkleRoot(...)
VrGetRoot(r) ==
  /\ vrRuns[r].pc = "getRoot"
  /\ vrRuns' = [vrRuns EXCEPT ![r].pc = IF vrRuns[r].skipSubmit THEN "sleepDeadline" ELSE "submit1",
                              ![r].i = 1]
  /\ UNCHANGED <<now, otherVars, spTimer, spRuns, vrTimer>>

\* the loop is left after its first pass
VrSubmitFirstOnly(r, op, nextPc) ==
  /\ vrRuns[r].pc = op
  /\ \E ok \in Outcomes :
       vrRuns' = [vrRuns EXCEPT ![r].log = Append(@, Call(op, vrRuns[r].i, ok)),
                                ![r].i = 1,
                                ![r].pc = nextPc]
  /\ UNCHANGED <<now, otherVars, spTimer, spRuns, vrTimer>>

\* a rejected submission ends the run
VrSubmitStopsOnFailure(r, op, nextPc) ==
  /\ vrRuns[r].pc = op
  /\ \E ok \in Outcomes :
       LET run == vrRuns[r]
           last == run.i >= Len(registeredAccounts)
       IN vrRuns' = [vrRuns EXCEPT ![r].log = Append(@, Call(op, run.i, ok)),
                                   ![r].i = IF last THEN 1 ELSE run.i + 1,
                                   ![r].pc = IF ~ok THEN "crashed"
                                             ELSE IF last THEN nextPc ELSE op]
  /\ UNCHANGED <<now, otherVars, spTimer, spRuns, vrTimer>>

\* one pass of a loop "for (const acc of registeredAccounts) try { await submit } catch"
VrSubmit(r, op, nextPc) ==
  /\ vrRuns[r].pc = op
  /\ \E ok \in Outcomes :
       LET run == vrRuns[r]
           last == run.i >= Len(registeredAccounts)
       IN vrRuns' = [vrRuns EXCEPT ![r].log = Append(@, Call(op, run.i, ok)),
                                   ![r].i = IF last THEN 1 ELSE run.i + 1,
                                   ![r].pc = IF last THEN nextPc ELSE op]
  /\ UNCHANGED <<now, otherVars, spTimer, spRuns, vrTimer>>

afterSignatures(run) == IF run.skipFinalisation THEN "finished" ELSE "finalize"

VrSubmit1(r) == VrSubmit(r, "submit1", "sleepReveal")
VrSubmit2(r) == VrSubmit(r, "submit2", "sleepDeadline")
VrSubmitSignatures(r) == VrSubmit(r, "submitSignatures", afterSignatures(vrRuns[r]))

\* await sleep(revealStartMs - Date.now());
VrSleepReveal(r) ==
  /\ vrRuns[r].pc = "sleepReveal"
  /\ now >= votingEpochStartMs(vrRuns[r].votingRoundId + 1)
  /\ vrRuns' = [vrRuns EXCEPT ![r].pc = "submit2"]
  /\ UNCHANGED <<now, otherVars, spTimer, spRuns, vrTimer>>

revealDeadlineMs(votingRoundId) ==
  votingEpochStartMs(votingRoundId + 1) + votingEpochDurationSec \div 2

\* the run does not sleep until the reveal deadline
VrSleepDeadlineNoWait(r) ==
  /\ vrRuns[r].pc = "sleepDeadline"
  /\ vrRuns' = [vrRuns EXCEPT ![r].pc = IF vrRuns[r].skipSubmit THEN afterSignatures(vrRuns[r])
                                        ELSE "submitSignatures"]
  /\ UNCHANGED <<now, otherVars, spTimer, spRuns, vrTimer>>

\* await sleep(revealDeadlineMs - Date.now());
VrSleepDeadline(r) ==
  /\ vrRuns[r].pc = "sleepDeadline"
  /\ now >= revealDeadlineMs(vrRuns[r].votingRoundId)
  /\ vrRuns' = [vrRuns EXCEPT ![r].pc = IF vrRuns[r].skipSubmit THEN afterSignatures(vrRuns[r])
                                        ELSE "submitSignatures"]
  /\ UNCHANGED <<now, otherVars, spTimer, spRuns, vrTimer>>

\* the round and the reward epoch are those of the time of the finalization
FakeFinalizeAtCurrentTime(r) ==
  /\ vrRuns[r].pc = "finalize"
  /\ LET votingRoundId == votingEpochForTime(now)
         rewardEpochId == rewardEpochForTime(now)
     IN IF MapHas(signingPolicies, rewardEpochId)
        THEN vrRuns' = [vrRuns EXCEPT
               ![r].pc = "relay",
               ![r].log = Append(@,
                  [op |-> "fakeFinalize", acc |-> 0, ok |-> TRUE,
                   votingRoundId |-> votingRoundId,
                   signingPolicy |-> signingPolicies[rewardEpochId],
                   privateKeysInOrder |->
                     privateKeysInOrder(signingPolicies[rewardEpochId].voters,
                                        registeredAccounts)])]
        ELSE vrRuns' = [vrRuns EXCEPT
               ![r].pc = "crashed",
               ![r].log = Append(@, Call("fakeFinalize", 0, FALSE))]
  /\ UNCHANGED <<now, otherVars, spTimer, spRuns, vrTimer>>

\* fakeFinalize(..., now) up to "await generateSignatures": the message and the keys.
\* Without a policy of the reward epoch, signingPolicy.voters throws.
FakeFinalize(r) ==
  /\ vrRuns[r].pc = "finalize"
  /\ LET run == vrRuns[r]
         votingRoundId == votingEpochForTime(run.now)
         rewardEpochId == rewardEpochForTime(run.now)
     IN IF MapHas(signingPolicies, rewardEpochId)
        THEN vrRuns' = [vrRuns EXCEPT
               ![r].pc = "relay",
               ![r].log = Append(@,
                  [op |-> "fakeFinalize", acc |-> 0, ok |-> TRUE,
                   votingRoundId |-> votingRoundId,
                   signingPolicy |-> signingPolicies[rewardEpochId],
                   privateKeysInOrder |->
                     privateKeysInOrder(signingPolicies[rewardEpochId].voters,
                                        registeredAccounts)])]
        ELSE vrRuns' = [vrRuns EXCEPT
               ![r].pc = "crashed",
               ![r].log = Append(@, Call("fakeFinalize", 0, FALSE))]
  /\ UNCHANGED <<now, otherVars, spTimer, spRuns, vrTimer>>

\* a rejected relay transaction ends the run before its last step
RelayFatal(r) ==
  /\ vrRuns[r].pc = "relay"
  /\ \E ok \in Outcomes :
       vrRuns' = [vrRuns EXCEPT ![r].pc = IF ok THEN "finished" ELSE "crashed",
                                ![r].log = Append(@, Call("relay", 1, ok))]
  /\ UNCHANGED <<now, otherVars, spTimer, spRuns, vrTimer>>

\* try { await web3.eth.sendTransaction(...) } catch (e) { logger.error(e) }
Relay(r) ==
  /\ vrRuns[r].pc = "relay"
  /\ \E ok \in Outcomes :
       vrRuns' = [vrRuns EXCEPT ![r].pc = "finished",
                                ![r].log = Append(@, Call("relay", 1, ok))]
  /\ UNCHANGED <<now, otherVars, spTimer, spRuns, vrTimer>>

----------------------------------------------------------------------------
(* The SigningPolicyDriver: runSigningPolicyProtocol, defineNextSigningPolicy *)

RAS == "RandomAcquisitionStarted"
VPBS == "VotePowerBlockSelected"

SpCall(op, acc, ok, thresholdReached) ==
  [op |-> op, acc |-> acc, ok |-> ok, thresholdReached |-> thresholdReached]

\* SKIP_..._SET.has(acc.signingPolicy.address.toLowerCase())
skipped(skipSet, acc) == toLowerCase(acc.signingPolicy.address) \in skipSet

\* the next account at or after position i that a loop with a skip set does not pass
\* over ("continue"); Len + 1 when the loop is over
nextAccount(accounts, skipSet, i) ==
  LET rest == {j \in i..Len(accounts) : ~skipped(skipSet, accounts[j])}
  IN IF rest = {} THEN Len(accounts) + 1 ELSE CHOOSE j \in rest : \A k \in rest : j <= k

vrVars == <<vrTimer, vrRuns>>

\* the timer of runSigningPolicyProtocol fires: it is armed again one reward epoch
\* later, and defineNextSigningPolicy asks the authority for its reward epoch
SpStart ==
  /\ TimerDue(spTimer)
  /\ spTimer' = now + rewardEpochDurationSec
  /\ spRuns' = Append(spRuns, [rewardEpochId |-> 0, pc |-> "getEpoch", i |-> 1, log |-> <<>>])
  /\ UNCHANGED <<now, otherVars, vrVars>>

\* const rewardEpochId = (await c.flareSystemsManager.getCurrentRewardEpochId()).toNumber();
SpGetEpoch(r) ==
  /\ spRuns[r].pc = "getEpoch"
  /\ spRuns' = [spRuns EXCEPT ![r].rewardEpochId = chainEpoch, ![r].pc = "awaitRandom"]
  /\ UNCHANGED <<now, otherVars, spTimer, vrVars>>

\* the loop does not wait for the event
SpAwaitNoWait(r, pc, name, nextPc) ==
  /\ spRuns[r].pc = pc
  /\ spRuns' = [spRuns EXCEPT ![r].pc = nextPc]
  /\ UNCHANGED <<now, otherVars, spTimer, vrVars>>

\* the wait loop gives up when the event is not there, and the run returns
SpAwaitGivesUp(r, pc, name, nextPc) ==
  /\ spRuns[r].pc = pc
  /\ spRuns' = [spRuns EXCEPT ![r].pc =
                   IF hasEvent(rewardEpochEvents, spRuns[r].rewardEpochId, name)
                   THEN nextPc ELSE "done"]
  /\ UNCHANGED <<now, otherVars, spTimer, vrVars>>

\* while (!rewardEvents.get(rewardEpochId)?.includes(name)) await sleep(500);
SpAwait(r, pc, name, nextPc) ==
  /\ spRuns[r].pc = pc
  /\ hasEvent(rewardEpochEvents, spRuns[r].rewardEpochId, name)
  /\ spRuns' = [spRuns EXCEPT ![r].pc = nextPc]
  /\ UNCHANGED <<now, otherVars, spTimer, vrVars>>

SpAwaitRandom(r) == SpAwait(r, "awaitRandom", RAS, "checkRandom")

\* the run goes on whatever the quality of the randomness
SpCheckRandomIgnoresQuality(r) ==
  /\ spRuns[r].pc = "checkRandom"
  /\ \E quality \in BOOLEAN :
       spRuns' = [spRuns EXCEPT ![r].pc = "awaitVPB",
                                ![r].log = Append(@, SpCall("random", 0, quality, FALSE))]
  /\ UNCHANGED <<now, otherVars, spTimer, vrVars>>

\* if (!(await c.submission.getCurrentRandomWithQuality())[1]) throw new Error("No good random");
SpCheckRandom(r) ==
  /\ spRuns[r].pc = "checkRandom"
  /\ \E quality \in BOOLEAN :
       spRuns' = [spRuns EXCEPT ![r].pc = IF quality THEN "awaitVPB" ELSE "fatal",
                                ![r].log = Append(@, SpCall("random", 0, quality, FALSE))]
  /\ UNCHANGED <<now, otherVars, spTimer, vrVars>>

\* the wait for the vote power block, then the registration loop up to its first call
SpAwaitVPB(r) ==
  /\ spRuns[r].pc = "awaitVPB"
  /\ hasEvent(rewardEpochEvents, spRuns[r].rewardEpochId, VPBS)
  /\ LET first == nextAccount(registeredAccounts, env.SKIP_VOTER_REGISTRATION_SET, 1)
     IN spRuns' = [spRuns EXCEPT
          ![r].i = first,
          ![r].pc = IF first > Len(registeredAccounts) THEN "awaitSPI" ELSE "register"]
  /\ UNCHANGED <<now, otherVars, spTimer, vrVars>>

\* await registerVoter(nextRewardEpochId, acc, c.voterRegistry): no handler around it,
\* a rejected request ends defineNextSigningPolicy
SpRegister(r) ==
  /\ spRuns[r].pc = "register"
  /\ \E ok \in BOOLEAN :
       LET run == spRuns[r]
           next == nextAccount(registeredAccounts, env.SKIP_VOTER_REGISTRATION_SET, run.i + 1)
       IN spRuns' = [spRuns EXCEPT
            ![r].log = Append(@, SpCall("registerVoter", run.i, ok, FALSE)),
            ![r].i = IF ok THEN next ELSE run.i,
            ![r].pc = IF ~ok THEN "fatal"
                      ELSE IF next > Len(registeredAccounts) THEN "awaitSPI" ELSE "register"]
  /\ UNCHANGED <<now, otherVars, spTimer, vrVars>>

SpAwaitSPI(r) == SpAwait(r, "awaitSPI", SPI, "getHash")

\* const newSigningPolicyHash = await c.relay.toSigningPolicyHash(nextRewardEpochId);
\* then the signing loop up to its first call
SpGetHash(r) ==
  /\ spRuns[r].pc = "getHash"
  /\ LET first == nextAccount(registeredAccounts, env.SKIP_SIGNING_POLICY_SIGNING_SET, 1)
     IN spRuns' = [spRuns EXCEPT
          ![r].log = Append(@, SpCall("toSigningPolicyHash", 0, TRUE, FALSE)),
          ![r].i = first,
          ![r].pc = IF first > Len(registeredAccounts) THEN "done" ELSE "sign"]
  /\ UNCHANGED <<now, otherVars, spTimer, vrVars>>

\* what signNewSigningPolicy may answer: the first log of the response is
\* SigningPolicySigned or not, and its thresholdReached argument
SignResponses == {[signed |-> s, thresholdReached |-> t] :
                    s \in BOOLEAN, t \in BOOLEAN} \ {[signed |-> FALSE, thresholdReached |-> TRUE]}

\* the loop goes on after thresholdReached
afterSignNoEarlyExit(response, i) ==
  LET next == nextAccount(registeredAccounts, env.SKIP_SIGNING_POLICY_SIGNING_SET, i + 1)
  IN IF ~response.signed THEN [pc |-> "fatal", i |-> i]
     ELSE IF next > Len(registeredAccounts) THEN [pc |-> "done", i |-> next]
     ELSE [pc |-> "sign", i |-> next]

\* the loop returns after the first signed response, whatever thresholdReached says
afterSignReturnsOnAck(response, i) ==
  IF ~response.signed THEN [pc |-> "fatal", i |-> i] ELSE [pc |-> "done", i |-> i]

\* a response without SigningPolicySigned is taken as "threshold not reached"
afterSignIgnoresMissingAck(response, i) ==
  LET next == nextAccount(registeredAccounts, env.SKIP_SIGNING_POLICY_SIGNING_SET, i + 1)
  IN IF response.signed /\ response.thresholdReached THEN [pc |-> "done", i |-> i]
     ELSE IF next > Len(registeredAccounts) THEN [pc |-> "done", i |-> next]
     ELSE [pc |-> "sign", i |-> next]

\* where the signing loop goes after the response to the signature of account i
afterSign(response, i) ==
  LET next == nextAccount(registeredAccounts, env.SKIP_SIGNING_POLICY_SIGNING_SET, i + 1)
  IN IF ~response.signed THEN [pc |-> "fatal", i |-> i]
     ELSE IF response.thresholdReached THEN [pc |-> "done", i |-> i]
     ELSE IF next > Len(registeredAccounts) THEN [pc |-> "done", i |-> next]
     ELSE [pc |-> "sign", i |-> next]

\* const signResponse = await c.flareSystemsManager.signNewSigningPolicy(...)
SpSign(r) ==
  /\ spRuns[r].pc = "sign"
  /\ \E response \in SignResponses :
       LET run == spRuns[r]
           to == afterSign(response, run.i)
       IN spRuns' = [spRuns EXCEPT
            ![r].log = Append(@, SpCall("signNewSigningPolicy", run.i,
                                        response.signed, response.thresholdReached)),
            ![r].i = to.i,
            ![r].pc = to.pc]
  /\ UNCHANGED <<now, otherVars, spTimer, vrVars>>

----------------------------------------------------------------------------
(* The RewardOfferingScheduler: scheduleOfferRewardsActions, runOfferRewards *)

RES == "RewardEpochStarted"

Offer(rewardEpochId, ok) == [op |-> "offerRewards", rewardEpochId |-> rewardEpochId, ok |-> ok]

\* runOfferRewards(c, epochSettings, undefined, 1) of defineInitialSigningPolicy: the
\* offers of reward epoch 1, made by the setup without a wait
ForcedOffers(forceEpoch, ok) ==
  [now |-> rewardEpochStartMs(0), forced |-> TRUE, nextRewardEpochId |-> forceEpoch,
   pc |-> "done", log |-> <<Offer(forceEpoch, ok)>>]

\* the timer of scheduleOfferRewardsActions fires: it is armed again for one second
\* after the next reward epoch start, and runOfferRewards starts without forceEpoch
OrStart ==
  /\ TimerDue(orTimer)
  /\ orTimer' = nextRewardEpochStartMs(now) + 1
  /\ orRuns' = Append(orRuns,
       [now |-> now, forced |-> FALSE, nextRewardEpochId |-> rewardEpochForTime(now) + 1,
        pc |-> "awaitStart", log |-> <<>>])
  /\ UNCHANGED <<now, chainEpoch, ledgerVars, registeredAccounts, env, watcher,
                 spTimer, spRuns, vrVars>>

\* the offers are submitted without the wait
OrAwaitNoWait(r) ==
  /\ orRuns[r].pc = "awaitStart"
  /\ orRuns' = [orRuns EXCEPT ![r].pc = "offer"]
  /\ UNCHANGED <<now, chainEpoch, ledgerVars, registeredAccounts, env, watcher,
                 spTimer, spRuns, vrVars, orTimer>>

\* if (forceEpoch == null) while (!...get(nextRewardEpochId - 1)?.includes("RewardEpochStarted"))
OrAwait(r) ==
  /\ orRuns[r].pc = "awaitStart"
  /\ \/ orRuns[r].forced
     \/ hasEvent(rewardEpochEvents, orRuns[r].nextRewardEpochId - 1, RES)
  /\ orRuns' = [orRuns EXCEPT ![r].pc = "offer"]
  /\ UNCHANGED <<now, chainEpoch, ledgerVars, registeredAccounts, env, watcher,
                 spTimer, spRuns, vrVars, orTimer>>

\* try { await c.ftsoRewardOffersManager.offerRewards(nextRewardEpochId, OFFERS, ...) } catch
OrOffer(r) ==
  /\ orRuns[r].pc = "offer"
  /\ \E ok \in BOOLEAN :
       orRuns' = [orRuns EXCEPT ![r].pc = "done",
                                ![r].log = Append(@, Offer(orRuns[r].nextRewardEpochId, ok))]
  /\ UNCHANGED <<now, chainEpoch, ledgerVars, registeredAccounts, env, watcher,
                 spTimer, spRuns, vrVars, orTimer>>

----------------------------------------------------------------------------
(* The state after the setup of runSimulation: reward epoch 1 has started, *)
(* the policies of epochs 0 and 1 are installed, the ledger is empty.      *)

governanceAccount == Acct(0)

InitialPolicies(voters1) ==
  [e \in {0, 1} |->
     extractSigningPolicy(PolicyArgs(e, IF e = 0 THEN <<governanceAccount.address>> ELSE voters1))]

NoEnv == [SKIP_VOTER_REGISTRATION_SET |-> {},
          SKIP_SIGNING_POLICY_SIGNING_SET |-> {},
          SKIP_VOTING_EPOCH_ACTIONS |-> FALSE,
          SKIP_FINALIZATIONS |-> FALSE]

InitCommon(accounts, voters1) ==
  /\ chainEpoch = 1
  /\ initializedVotingRound = 0
  /\ rewardEpochEvents = <<>>
  /\ registeredAccounts = accounts
  /\ signingPolicies = InitialPolicies(voters1)
  /\ watcher = [pc |-> "daemonize", blockTimestamp |-> 0, policyEpoch |-> 0]
  /\ spRuns = <<>>
  /\ vrRuns = <<>>

----------------------------------------------------------------------------
(* SpecLedger: the LedgerWatcher and the authority alone.                  *)

\* processLog tells two names apart; one more stands for every other event
LedgerNames == {"RandomAcquisitionStarted", "NewVotingRoundInitiated"}

InitLedger ==
  /\ InitCommon(registerAccounts(1), <<RegisteredAccount(0).signingPolicy.address>>)
  /\ now = rewardEpochStartMs(2) - TickSec
  /\ env = NoEnv
  /\ spTimer = NoTimer
  /\ vrTimer = NoTimer
  /\ orTimer = NoTimer
  /\ orRuns = <<>>

NextLedger ==
  \/ Tick(TickSec, rewardEpochStartMs(2) + (MaxTicksLedger - 1) * TickSec)
  \/ Daemonize
  \/ DaemonizeFails
  \/ ProcessResponse(LedgerNames, MaxLogs, {LocalVoters}, {IRO}, MaxLedgerLen)
  \/ GetBlockFails

SpecLedger == InitLedger /\ [][NextLedger]_vars

----------------------------------------------------------------------------
(* SpecRound: the VotingRoundDriver with the LedgerWatcher                 *)

RoundNames == {"NewVotingRoundInitiated"}
StartRound == nextVotingEpochStartMs(rewardEpochStartMs(1))

InitRound ==
  /\ InitCommon(registerAccounts(NumAccounts), VotersOf(registerAccounts(NumAccounts)))
  /\ now = StartRound
  /\ \E a \in BOOLEAN, f \in BOOLEAN :
       env = [NoEnv EXCEPT !.SKIP_VOTING_EPOCH_ACTIONS = a, !.SKIP_FINALIZATIONS = f]
  /\ spTimer = NoTimer
  /\ vrTimer = nextVotingEpochStartMs(rewardEpochStartMs(1))
  /\ orTimer = NoTimer
  /\ orRuns = <<>>

NextRound ==
  \/ Tick(TickSec, StartRound + MaxTicksRound * TickSec)
  \/ Daemonize
  \/ ProcessResponse(RoundNames, 1, {}, {}, 0)
  \/ VrStart
  \/ \E r \in 1..Len(vrRuns) :
       \/ VrAwaitInit(r)
       \/ VrGetRoot(r)
       \/ VrSubmit1(r)
       \/ VrSleepReveal(r)
       \/ VrSubmit2(r)
       \/ VrSleepDeadline(r)
       \/ VrSubmitSignatures(r)
       \/ FakeFinalize(r)
       \/ Relay(r)

SpecRound == InitRound /\ [][NextRound]_vars

----------------------------------------------------------------------------
(* SpecFinalize: fakeFinalize on every policy voter list and every order   *)
(* of the local accounts, reached through a voting round that skips the    *)
(* submissions.                                                            *)

MaxVoters == 3           \* voters of a signing policy

Orders(s) ==
  {[i \in 1..Len(s) |-> s[f[i]]] :
     f \in {g \in [1..Len(s) -> 1..Len(s)] : \A i, j \in 1..Len(s) : g[i] = g[j] => i = j}}

\* the addresses a policy may list: the local signing policy addresses, in mixed case
\* or in lower case, and the address of an account that is not local
VoterUniverse ==
  LET local == {RegisteredAccount(i).signingPolicy.address : i \in 0..(NumAccounts - 1)}
  IN local \cup {toLowerCase(a) : a \in local} \cup {Addr(1)}

InitFinalize ==
  /\ \E accounts \in Orders(registerAccounts(NumAccounts)),
        voters \in SeqsUpTo(VoterUniverse, MaxVoters) :
       InitCommon(accounts, voters)
  /\ now = StartRound
  /\ env = [NoEnv EXCEPT !.SKIP_VOTING_EPOCH_ACTIONS = TRUE]
  /\ spTimer = NoTimer
  /\ vrTimer = nextVotingEpochStartMs(rewardEpochStartMs(1))
  /\ orTimer = NoTimer
  /\ orRuns = <<>>

NextFinalize ==
  \/ Tick(TickSec, revealDeadlineMs(votingEpochForTime(StartRound)) + TickSec - 1)
  \/ VrStart
  \/ \E r \in 1..Len(vrRuns) :
       \/ VrAwaitInit(r)
       \/ VrGetRoot(r)
       \/ VrSleepDeadline(r)
       \/ FakeFinalize(r)
       \/ Relay(r)

SpecFinalize == InitFinalize /\ [][NextFinalize]_vars

\* The keys of the voters that have a local account, by the specification: the
\* voters whose address is that of a local signing policy account, whatever the
\* case it is written in, each mapped to the private key of that account.
isLocal(voter, accounts) ==
  \E i \in 1..Len(accounts) : accounts[i].signingPolicy.address.hex = voter.hex
keyOf(voter, accounts) ==
  accounts[CHOOSE i \in 1..Len(accounts) :
             accounts[i].signingPolicy.address.hex = voter.hex].signingPolicy.privateKey
matchedVoters(voters, accounts) == SelectSeq(voters, LAMBDA v : isLocal(v, accounts))
matchedKeys(voters, accounts) ==
  [k \in 1..Len(matchedVoters(voters, accounts)) |->
     keyOf(matchedVoters(voters, accounts)[k], accounts)]

LogEntries(runs) == UNION {{runs[r].log[k] : k \in 1..Len(runs[r].log)} : r \in 1..Len(runs)}
Finalizations == {e \in LogEntries(vrRuns) : e.op = "fakeFinalize" /\ e.ok}

\* C1: the keys that fakeFinalize collects are those of the policy's voters that have
\* a local account, in the order of the policy's voter list; voters without a local
\* account are skipped, and no other order of the local accounts gives another list.
C1_KeysFollowPolicyOrder ==
  \A e \in Finalizations :
    /\ e.privateKeysInOrder = matchedKeys(e.signingPolicy.voters, registeredAccounts)
    /\ \A p \in Orders(registeredAccounts) :
         privateKeysInOrder(e.signingPolicy.voters, p) = e.privateKeysInOrder

\* a policy of three voters, one of them not local, whose two local voters are listed
\* in the opposite order of the local accounts
C1_Witness ==
  \E e \in Finalizations :
    /\ Len(e.signingPolicy.voters) = 3
    /\ \E k \in 1..3 : ~isLocal(e.signingPolicy.voters[k], registeredAccounts)
    /\ Len(e.privateKeysInOrder) = 2
    /\ e.privateKeysInOrder[1] = registeredAccounts[2].signingPolicy.privateKey
    /\ e.privateKeysInOrder[2] = registeredAccounts[1].signingPolicy.privateKey

----------------------------------------------------------------------------
(* SpecPolicy: the SigningPolicyDriver with the LedgerWatcher.  The clock  *)
(* advances by a quarter of a reward epoch.                                *)

MaxTicksPolicy == 2      \* clock steps taken in SpecPolicy
MaxPolicyLedger == 3     \* entries recorded in the ledger in SpecPolicy

PolicyNames == {RAS, VPBS}
PolicyStep == rewardEpochDurationSec \div 4
StartPolicy ==
  nextRewardEpochStartMs(rewardEpochStartMs(1)) - newSigningPolicyInitializationStartSeconds

LowerCased(accounts) == {toLowerCase(accounts[i].signingPolicy.address) : i \in 1..Len(accounts)}

InitPolicy ==
  /\ InitCommon(registerAccounts(NumAccounts), VotersOf(registerAccounts(NumAccounts)))
  /\ now = StartPolicy
  /\ \E a \in SUBSET LowerCased(registerAccounts(1)),
        b \in SUBSET LowerCased(registerAccounts(NumAccounts)) :
       env = [NoEnv EXCEPT !.SKIP_VOTER_REGISTRATION_SET = a,
                           !.SKIP_SIGNING_POLICY_SIGNING_SET = b]
  /\ spTimer = StartPolicy
  /\ vrTimer = NoTimer
  /\ orTimer = NoTimer
  /\ orRuns = <<>>

NextPolicy ==
  \/ Tick(PolicyStep, StartPolicy + MaxTicksPolicy * PolicyStep)
  \/ Daemonize
  \/ ProcessResponse(PolicyNames, 1, {LocalVoters}, {}, MaxPolicyLedger)
  \/ SpStart
  \/ \E r \in 1..Len(spRuns) :
       \/ SpGetEpoch(r)
       \/ SpAwaitRandom(r)
       \/ SpCheckRandom(r)
       \/ SpAwaitVPB(r)
       \/ SpRegister(r)
       \/ SpAwaitSPI(r)
       \/ SpGetHash(r)
       \/ SpSign(r)

SpecPolicy == InitPolicy /\ [][NextPolicy]_vars

----------------------------------------------------------------------------
(* Claims about the SigningPolicyDriver, under SpecPolicy                  *)

Indices(accounts) == [i \in 1..Len(accounts) |-> i]
\* the accounts a loop with the given skip set reaches, in the order of the list
eligible(skipSet) ==
  SelectSeq(Indices(registeredAccounts), LAMBDA i : ~skipped(skipSet, registeredAccounts[i]))
signers == eligible(env.SKIP_SIGNING_POLICY_SIGNING_SET)
registrants == eligible(env.SKIP_VOTER_REGISTRATION_SET)
signatures(run) == SelectSeq(run.log, LAMBDA e : e.op = "signNewSigningPolicy")
reached(e) == e.ok /\ e.thresholdReached

\* C2: the signatures of a run are submitted by the accounts outside the skip set, in
\* the order of the account list, and a signature whose acknowledgment reports
\* thresholdReached is the last one of the run.
C2_SignInOrderUntilThreshold ==
  \A r \in 1..Len(spRuns) :
    LET s == signatures(spRuns[r])
    IN /\ Len(s) <= Len(signers)
       /\ \A k \in 1..Len(s) : s[k].acc = signers[k]
       /\ \A k \in 1..Len(s) : reached(s[k]) => k = Len(s) /\ spRuns[r].pc = "done"

\* the first of two signers reaches the threshold, the second one never signs
C2_Witness ==
  \E r \in 1..Len(spRuns) :
    /\ spRuns[r].pc = "done"
    /\ Len(signers) >= 2
    /\ Len(signatures(spRuns[r])) = 1
    /\ reached(signatures(spRuns[r])[1])

\* C3 as stated: a run that has returned has seen an acknowledgment with
\* thresholdReached
C3_DoneOnlyAfterThreshold ==
  \A r \in 1..Len(spRuns) :
    spRuns[r].pc = "done" =>
      \E k \in 1..Len(signatures(spRuns[r])) : reached(signatures(spRuns[r])[k])

\* C3 as amended: a run that has returned has seen an acknowledgment with
\* thresholdReached for its last signature, or every account outside the skip set
\* has signed and every acknowledgment said the threshold is not reached
C3_DoneAfterThresholdOrAllSigned ==
  \A r \in 1..Len(spRuns) :
    LET s == signatures(spRuns[r])
    IN spRuns[r].pc = "done" =>
         \/ Len(s) > 0 /\ reached(s[Len(s)])
         \/ /\ Len(s) = Len(signers)
            /\ \A k \in 1..Len(s) : s[k].acc = signers[k] /\ s[k].ok /\ ~s[k].thresholdReached

\* two signers: the first acknowledgment says not reached, the second says reached
C3_Witness ==
  \E r \in 1..Len(spRuns) :
    LET s == signatures(spRuns[r])
    IN /\ spRuns[r].pc = "done"
       /\ Len(s) = 2
       /\ s[1].ok /\ ~s[1].thresholdReached
       /\ reached(s[2])

\* C6: a run that has submitted a registration finds RandomAcquisitionStarted and
\* VotePowerBlockSelected in the list of its reward epoch; a run that has asked for the
\* policy hash or submitted a signature finds SigningPolicyInitialized there, and has
\* submitted the registration of every account outside the skip set before.
C6_StepsInOrder ==
  \A r \in 1..Len(spRuns) :
    LET run == spRuns[r]
        log == run.log
    IN \A k \in 1..Len(log) :
         /\ log[k].op = "registerVoter" =>
              /\ hasEvent(rewardEpochEvents, run.rewardEpochId, RAS)
              /\ hasEvent(rewardEpochEvents, run.rewardEpochId, VPBS)
              /\ \A j \in 1..(k - 1) : log[j].op \in {"random", "registerVoter"}
         /\ log[k].op \in {"toSigningPolicyHash", "signNewSigningPolicy"} =>
              /\ hasEvent(rewardEpochEvents, run.rewardEpochId, SPI)
              /\ \A n \in 1..Len(registrants) :
                   \E j \in 1..(k - 1) :
                     log[j].op = "registerVoter" /\ log[j].acc = registrants[n]

C6_Witness ==
  \E r \in 1..Len(spRuns) :
    /\ Len(registrants) = Len(registeredAccounts)
    /\ \E k \in 1..Len(spRuns[r].log) : spRuns[r].log[k].op = "signNewSigningPolicy"

\* the authority has emitted the three events of the reward epoch, every answer about
\* the randomness was good and every signature was acknowledged
cooperative(epoch) ==
  /\ \A name \in {RAS, VPBS, SPI} : hasEvent(rewardEpochEvents, epoch, name)
  /\ \A r \in 1..Len(spRuns) :
       spRuns[r].rewardEpochId = epoch =>
         \A k \in 1..Len(spRuns[r].log) :
           spRuns[r].log[k].op \in {"random", "signNewSigningPolicy"} => spRuns[r].log[k].ok

\* C10: in a reward epoch where the authority has done its part, no run of the
\* epoch has ended with a fatal error, and at most one run of the epoch has returned
C10_RatifiesOncePerEpoch ==
  \A epoch \in DOMAIN rewardEpochEvents :
    cooperative(epoch) =>
      /\ \A r \in 1..Len(spRuns) :
           spRuns[r].rewardEpochId = epoch => spRuns[r].pc # "fatal"
      /\ Cardinality({r \in 1..Len(spRuns) :
                        spRuns[r].rewardEpochId = epoch /\ spRuns[r].pc = "done"}) <= 1

----------------------------------------------------------------------------
(* Claims about the EventStore, under SpecLedger                           *)

IsPrefix(s, t) == Len(s) <= Len(t) /\ \A i \in 1..Len(s) : s[i] = t[i]
get(m, k) == IF MapHas(m, k) THEN m[k] ELSE <<>>
Max(a, b) == IF a >= b THEN a ELSE b
NVRI == "NewVotingRoundInitiated"
RecordedNames == (FsmEvents \ {NVRI}) \cup {SPI, IRO}
LogNamed(name) == IF name = SPI THEN RelayLog(chainEpoch + 1, LocalVoters) ELSE FsmLog(name)
\* block timestamps: of the heartbeat being read, the current time, an earlier block
Timestamps == {watcher.blockTimestamp, now, now - votingEpochDurationSec}

\* processLog on an event that is no round initialization appends the name to the
\* list of the reward epoch of the timestamp, also when the name is there already
C8_RecordAppends ==
  \A name \in RecordedNames, ts \in Timestamps :
    LET st == processLog(LogNamed(name), ts, Store)
        e == rewardEpochForTime(ts)
    IN /\ DOMAIN st.rewardEpochEvents = DOMAIN rewardEpochEvents \cup {e}
       /\ st.rewardEpochEvents[e] = Append(get(rewardEpochEvents, e), name)
       /\ hasEvent(st.rewardEpochEvents, e, name)
       /\ \A k \in DOMAIN rewardEpochEvents \ {e} :
            st.rewardEpochEvents[k] = rewardEpochEvents[k]

\* a step keeps every list as a prefix of what it becomes
C8_KeepsEntries ==
  \A e \in DOMAIN rewardEpochEvents :
    e \in DOMAIN rewardEpochEvents' /\ IsPrefix(rewardEpochEvents[e], rewardEpochEvents'[e])

\* C8: the ledger is append-only: recording an event appends its name to the end of
\* the list of the reward epoch of its block timestamp, duplicates included, and no
\* step removes or reorders an entry.
C8_LedgerAppendOnly == [](C8_RecordAppends) /\ [][C8_KeepsEntries]_vars

\* a name is recorded twice in the list of a reward epoch
C8_Witness ==
  \E e \in DOMAIN rewardEpochEvents :
    \E i, j \in 1..Len(rewardEpochEvents[e]) :
      i < j /\ rewardEpochEvents[e][i] = rewardEpochEvents[e][j]

\* processLog on a round initialization sets the latest initialized round to the
\* larger of its value and the round of the timestamp; on any other event it keeps it
C9_MarkIsMax ==
  \A ts \in Timestamps :
    /\ processLog(FsmLog(NVRI), ts, Store).initializedVotingRound =
         Max(initializedVotingRound, votingEpochForTime(ts))
    /\ \A name \in RecordedNames :
         processLog(LogNamed(name), ts, Store).initializedVotingRound = initializedVotingRound

\* a step never lowers the latest initialized round, and only the reading of a
\* heartbeat changes it
C9_NeverLower ==
  /\ initializedVotingRound' >= initializedVotingRound
  /\ initializedVotingRound' # initializedVotingRound =>
       /\ watcher.pc = "getBlock"
       /\ initializedVotingRound' = votingEpochForTime(watcher.blockTimestamp)

\* C9: the latest initialized voting round is monotonic non-decreasing: a round
\* initialization for round r sets it to max(current, r), nothing else changes it.
C9_InitializedRoundMonotonic == [](C9_MarkIsMax) /\ [][C9_NeverLower]_vars

\* a round has been marked, and an event of an earlier round would not lower it
C9_Witness ==
  /\ initializedVotingRound > votingEpochForTime(now - votingEpochDurationSec)
  /\ watcher.pc = "getBlock"

----------------------------------------------------------------------------
(* Claims about the VotingRoundDriver, under SpecRound                     *)

SubmitOps == {"submit1", "submit2", "submitSignatures"}
Count(run, op) == Cardinality({k \in 1..Len(run.log) : run.log[k].op = op})
PhaseOf(op) ==
  CASE op = "submit1" -> 1
    [] op = "submit2" -> 2
    [] op = "submitSignatures" -> 3
    [] op = "fakeFinalize" -> 4
    [] op = "relay" -> 5

\* C4: a run with skipSubmit makes no submit1, submit2 or submitSignatures call; it
\* calls fakeFinalize once before it finishes, or never if skipFinalisation is set.
C4_SkipSubmitStillFinalizes ==
  \A r \in 1..Len(vrRuns) :
    LET run == vrRuns[r]
    IN run.skipSubmit =>
         /\ \A k \in 1..Len(run.log) : run.log[k].op \notin SubmitOps
         /\ Count(run, "fakeFinalize") <= 1
         /\ run.skipFinalisation => Count(run, "fakeFinalize") = 0
         /\ run.pc = "finished" /\ ~run.skipFinalisation => Count(run, "fakeFinalize") = 1

C4_Witness ==
  \E r \in 1..Len(vrRuns) :
    /\ vrRuns[r].skipSubmit /\ ~vrRuns[r].skipFinalisation
    /\ vrRuns[r].pc = "finished"
    /\ Count(vrRuns[r], "fakeFinalize") = 1

\* C5: a run for round r has made no call while the latest initialized voting round
\* is smaller than r (the latest initialized round never decreases, so a run that
\* has made a call finds it at least r)
C5_WaitsUntilRoundInitialized ==
  \A r \in 1..Len(vrRuns) :
    vrRuns[r].log # <<>> => vrRuns[r].votingRoundId <= initializedVotingRound

\* C7: in the calls of one run the phases never go back, a call of a phase comes
\* after the calls of every participant in each earlier submission phase, and
\* fakeFinalize is called at most once, after all of them.
C7_PhasesInOrder ==
  \A r \in 1..Len(vrRuns) :
    LET log == vrRuns[r].log
    IN /\ \A j, k \in 1..Len(log) : j < k => PhaseOf(log[j].op) <= PhaseOf(log[k].op)
       /\ Count(vrRuns[r], "fakeFinalize") <= 1
       /\ ~vrRuns[r].skipSubmit =>
            \A k \in 1..Len(log) : \A q \in 1..3 : \A acc \in 1..Len(registeredAccounts) :
              q < PhaseOf(log[k].op) =>
                \E j \in 1..(k - 1) : PhaseOf(log[j].op) = q /\ log[j].acc = acc

C7_Witness ==
  \E r \in 1..Len(vrRuns) :
    /\ ~vrRuns[r].skipSubmit /\ ~vrRuns[r].skipFinalisation
    /\ vrRuns[r].pc = "finished"
    /\ Len(vrRuns[r].log) = 3 * Len(registeredAccounts) + 2

----------------------------------------------------------------------------
(* Error handling of the LedgerWatcher, under SpecLedger                   *)

\* C11: a failure of the heartbeat call or of the reading of its block is not fatal:
\* the loop of the LedgerWatcher is still running, at its heartbeat or at the reading
\* of the block, and goes on polling
C11_WatcherSurvivesFailure == watcher.pc \in {"daemonize", "getBlock"}

----------------------------------------------------------------------------
(* Error handling of the SigningPolicyDriver, under SpecPolicy             *)

registrations(run) == SelectSeq(run.log, LAMBDA e : e.op = "registerVoter")

\* C12: a rejected registration does not end the run: the run is not in its fatal
\* end, and the registration was the last one of the list or the run goes on with the
\* next account outside the skip set
C12_FailedRegistrationNotFatal ==
  \A r \in 1..Len(spRuns) :
    \A k \in 1..Len(registrations(spRuns[r])) :
      ~registrations(spRuns[r])[k].ok => spRuns[r].pc # "fatal"

----------------------------------------------------------------------------
(* Error handling of the VotingRoundDriver, under SpecRound                *)

submissions(run) == SelectSeq(run.log, LAMBDA e : e.op \in SubmitOps)
failed(run, ops) == {k \in 1..Len(run.log) : run.log[k].op \in ops /\ ~run.log[k].ok}

\* C13: a rejected submit1, submit2 or submitSignatures call is skipped: the
\* submissions of a run are those of every participant in each phase, in order,
\* whatever the outcome of the earlier ones; a run in a submission phase can make its
\* next call, no run ends before its last step, and a finished run has made the
\* submissions of every participant in the three phases and its finalization.
C13_FailedSubmissionSkipped ==
  \A r \in 1..Len(vrRuns) :
    LET run == vrRuns[r]
        subs == submissions(run)
        n == Len(registeredAccounts)
    IN /\ run.pc # "crashed"
       /\ \A k \in 1..Len(subs) :
            /\ ~run.skipSubmit
            /\ PhaseOf(subs[k].op) = ((k - 1) \div n) + 1
            /\ subs[k].acc = ((k - 1) % n) + 1
       /\ run.pc \in SubmitOps =>
            ENABLED (VrSubmit1(r) \/ VrSubmit2(r) \/ VrSubmitSignatures(r))
       /\ run.pc = "finished" /\ ~run.skipSubmit =>
            /\ Len(subs) = 3 * n
            /\ ~run.skipFinalisation =>
                 Count(run, "fakeFinalize") = 1 /\ Count(run, "relay") = 1

\* the commit of the first participant is rejected, and the run has finished after
\* the commit of the second one, the two later phases and the finalization
C13_Witness ==
  \E r \in 1..Len(vrRuns) :
    LET run == vrRuns[r]
    IN /\ ~run.skipSubmit /\ ~run.skipFinalisation
       /\ run.pc = "finished"
       /\ failed(run, {"submit1"}) = {1}
       /\ run.log[2].op = "submit1" /\ run.log[2].acc = 2
       /\ Len(submissions(run)) = 3 * Len(registeredAccounts)
       /\ Count(run, "relay") = 1

\* a run whose relay transaction was rejected has finished; the timer of the next
\* round is armed, fires when it is due, and the other runs in a submission phase can
\* make their next call
C14_FailedRelayFinishes ==
  /\ \A r \in 1..Len(vrRuns) :
       failed(vrRuns[r], {"relay"}) # {} =>
         /\ vrRuns[r].pc = "finished"
         /\ \A q \in 1..Len(vrRuns) :
              vrRuns[q].pc \in SubmitOps =>
                ENABLED (VrSubmit1(q) \/ VrSubmit2(q) \/ VrSubmitSignatures(q))
  /\ vrRuns # <<>> =>
       /\ vrTimer = votingEpochStartMs(vrRuns[Len(vrRuns)].votingRoundId + 1)
       /\ TimerDue(vrTimer) => ENABLED VrStart

\* the step of the relay transaction finishes its run and leaves the timer and the
\* other runs alone
C14_RelayStep ==
  \A r \in 1..Len(vrRuns) :
    vrRuns[r].pc = "relay" /\ vrRuns'[r].pc # "relay" =>
      /\ vrRuns'[r].pc = "finished"
      /\ vrTimer' = vrTimer
      /\ Len(vrRuns') = Len(vrRuns)
      /\ \A q \in 1..Len(vrRuns) : q # r => vrRuns'[q] = vrRuns[q]

\* C14: a rejected relay transaction of round r is not fatal: the run of round r
\* reaches its finished end, and the run of round r + 1 is still started by the timer
\* and goes through its own phases.
C14_FailedRelayNonFatal == [](C14_FailedRelayFinishes) /\ [][C14_RelayStep]_vars

\* the relay transaction of a round is rejected and its run has finished; the run of
\* the next round has been started and has made the commits of every participant
C14_Witness ==
  \E r \in 1..Len(vrRuns) :
    /\ failed(vrRuns[r], {"relay"}) # {}
    /\ vrRuns[r].pc = "finished"
    /\ r + 1 \in 1..Len(vrRuns)
    /\ vrRuns[r + 1].votingRoundId = vrRuns[r].votingRoundId + 1
    /\ vrRuns[r + 1].pc = "sleepReveal"
    /\ Count(vrRuns[r + 1], "submit1") = Len(registeredAccounts)

----------------------------------------------------------------------------
(* Fatal errors of the SigningPolicyDriver, under SpecPolicy               *)

\* C15: a response to a signature whose first log is not SigningPolicySigned ends the
\* run with a fatal error: the signature is the last call of the run, no further
\* account signs, and the run has not returned.
C15_MissingAckIsFatal ==
  \A r \in 1..Len(spRuns) :
    LET run == spRuns[r]
    IN \A k \in 1..Len(run.log) :
         run.log[k].op = "signNewSigningPolicy" /\ ~run.log[k].ok =>
           /\ k = Len(run.log)
           /\ run.pc = "fatal"

\* two accounts sign; the response to the first one has no SigningPolicySigned
C15_Witness ==
  \E r \in 1..Len(spRuns) :
    LET s == signatures(spRuns[r])
    IN /\ Len(signers) >= 2
       /\ Len(s) = 1
       /\ ~s[1].ok
       /\ spRuns[r].pc = "fatal"

\* C16: the randomness is asked for once RandomAcquisitionStarted is in the list of
\* the run's reward epoch; when its quality is poor the run ends with a fatal error
\* at that step: it has submitted no registration and no signature.
C16_PoorRandomIsFatal ==
  \A r \in 1..Len(spRuns) :
    LET run == spRuns[r]
    IN \A k \in 1..Len(run.log) :
         run.log[k].op = "random" =>
           /\ hasEvent(rewardEpochEvents, run.rewardEpochId, RAS)
           /\ ~run.log[k].ok =>
                /\ run.pc = "fatal"
                /\ Len(run.log) = 1
                /\ registrations(run) = <<>>
                /\ signatures(run) = <<>>

\* the randomness is poor while the vote power block is selected and an account
\* awaits its registration
C16_Witness ==
  \E r \in 1..Len(spRuns) :
    /\ spRuns[r].log # <<>>
    /\ spRuns[r].log[1].op = "random" /\ ~spRuns[r].log[1].ok
    /\ spRuns[r].pc = "fatal"
    /\ hasEvent(rewardEpochEvents, spRuns[r].rewardEpochId, VPBS)
    /\ Len(registrants) > 0

----------------------------------------------------------------------------
(* SpecOffers: the RewardOfferingScheduler with the LedgerWatcher.  The    *)
(* clock advances by half a reward epoch and meets the timer one second    *)
(* after each reward epoch start.                                          *)

MaxTicksOffers == 3      \* clock steps taken in SpecOffers
MaxOfferLedger == 2      \* entries recorded in the ledger in SpecOffers

OfferNames == {RES}
OfferStep == rewardEpochDurationSec \div 2
StartOffers == nextRewardEpochStartMs(rewardEpochStartMs(1)) + 1 - OfferStep

InitOffers ==
  /\ InitCommon(registerAccounts(1), VotersOf(registerAccounts(1)))
  /\ now = StartOffers
  /\ env = NoEnv
  /\ spTimer = NoTimer
  /\ vrTimer = NoTimer
  /\ orTimer = nextRewardEpochStartMs(StartOffers) + 1
  /\ \E ok \in BOOLEAN : orRuns = <<ForcedOffers(1, ok)>>

NextOffers ==
  \/ Tick(OfferStep, StartOffers + MaxTicksOffers * OfferStep)
  \/ Daemonize
  \/ ProcessResponse(OfferNames, 1, {}, {}, MaxOfferLedger)
  \/ OrStart
  \/ \E r \in 1..Len(orRuns) :
       \/ OrAwait(r)
       \/ OrOffer(r)

SpecOffers == InitOffers /\ [][NextOffers]_vars

scheduled == {r \in 1..Len(orRuns) : ~orRuns[r].forced}

\* C17: a run of the scheduler that is not forced and starts in reward epoch E offers
\* for E + 1 only, once, and only with RewardEpochStarted in the list of E; a rejected
\* offer leaves the run at its end and the timer armed for one second after the next
\* reward epoch start, where it fires; no two runs offer for the same reward epoch.
C17_OffersAfterEpochStarted ==
  /\ \A r \in scheduled :
       LET run == orRuns[r]
           E == rewardEpochForTime(run.now)
       IN /\ Len(run.log) <= 1
          /\ \A k \in 1..Len(run.log) :
               /\ run.log[k].rewardEpochId = E + 1
               /\ hasEvent(rewardEpochEvents, E, RES)
               /\ run.pc = "done"
          /\ run.pc \in {"awaitStart", "offer", "done"}
  /\ \A r, q \in 1..Len(orRuns) :
       r # q => orRuns[r].nextRewardEpochId # orRuns[q].nextRewardEpochId
  /\ scheduled # {} =>
       orTimer = rewardEpochStartMs(rewardEpochForTime(orRuns[Len(orRuns)].now) + 1) + 1
  /\ TimerDue(orTimer) => ENABLED OrStart

\* the offers of a run are rejected, and the run of the following reward epoch has
\* made its offers for the reward epoch after its own
C17_Witness ==
  \E r \in scheduled :
    /\ orRuns[r].pc = "done" /\ ~orRuns[r].log[1].ok
    /\ r + 1 \in scheduled
    /\ orRuns[r + 1].pc = "done" /\ orRuns[r + 1].log[1].ok
    /\ orRuns[r + 1].log[1].rewardEpochId = orRuns[r].log[1].rewardEpochId + 1
    /\ rewardEpochForTime(orRuns[r + 1].now) = rewardEpochForTime(orRuns[r].now) + 1

----------------------------------------------------------------------------
(* Collection of the events of a heartbeat, under SpecLedger               *)

Occurrences(seq, x) == Cardinality({k \in 1..Len(seq) : seq[k] = x})

\* C18: whatever a heartbeat mined now carries, each of its SigningPolicyInitialized
\* events is handed to processLog: after the pass of the loop the list of the reward
\* epoch of the block has one more such entry per event, and the policy of the event
\* is in the policy map.
C18_EveryPublishedPolicyRecorded ==
  \A response \in Responses(LedgerNames, MaxLogs, {LocalVoters}, {IRO}, now, chainEpoch + 1) :
    LET st == afterResponse(response, Store)
        e == rewardEpochForTime(response.blockTimestamp)
    IN \A k \in 1..Len(response.relay) :
         /\ Occurrences(get(st.rewardEpochEvents, e), SPI) =
              Occurrences(get(rewardEpochEvents, e), SPI) + Len(response.relay)
         /\ MapHas(st.signingPolicies, response.relay[k].args.rewardEpochId)
         /\ st.signingPolicies[response.relay[k].args.rewardEpochId] =
              extractSigningPolicy(response.relay[k].args)

----------------------------------------------------------------------------
(* Timing of the VotingRoundDriver, under SpecRound                        *)

\* the call that a step adds to the log of run r is not early: a submit2 is made at or
\* after the start of round r + 1, a submitSignatures, fakeFinalize or relay call at
\* or after that start plus half a voting epoch
C19_NoEarlyCall ==
  \A r \in 1..Len(vrRuns) :
    Len(vrRuns'[r].log) > Len(vrRuns[r].log) =>
      LET e == vrRuns'[r].log[Len(vrRuns'[r].log)]
          revealStartMs == votingEpochStartMs(vrRuns[r].votingRoundId + 1)
      IN /\ e.op = "submit2" => now >= revealStartMs /\ now' >= revealStartMs
         /\ e.op \in {"submitSignatures", "fakeFinalize", "relay"} =>
              /\ now >= revealStartMs + votingEpochDurationSec \div 2
              /\ now' >= revealStartMs + votingEpochDurationSec \div 2

\* C19: in a run for round r no reveal is submitted before the start of round r + 1,
\* and no signature is submitted and no finalization made before that start plus half
\* a round, also in a run that skips the submissions.
C19_RevealAndDeadlineWaits == [][C19_NoEarlyCall]_vars

\* a run that skips the submissions has made its finalization within one clock step
\* of the deadline
C19_Witness ==
  \E r \in 1..Len(vrRuns) :
    /\ vrRuns[r].skipSubmit
    /\ Count(vrRuns[r], "fakeFinalize") = 1
    /\ now >= revealDeadlineMs(vrRuns[r].votingRoundId)
    /\ now < revealDeadlineMs(vrRuns[r].votingRoundId) + TickSec

----------------------------------------------------------------------------
(* Scheduling of the SigningPolicyDriver, under SpecPolicy                 *)

activeRuns == {r \in 1..Len(spRuns) : spRuns[r].pc \notin {"done", "fatal"}}

\* C20: the timer of the SigningPolicyDriver is armed again only after the run has
\* ended: no timer is pending while a run is waiting, registering or signing, and at
\* most one run is active.
C20_RearmsAfterTermination ==
  /\ activeRuns # {} => spTimer = NoTimer
  /\ Cardinality(activeRuns) <= 1

----------------------------------------------------------------------------
(* SpecCadence: the timer of the VotingRoundDriver under a clock that      *)
(* advances by uneven steps, so that the timer fires late by a varying     *)
(* delay, and once in a while after a whole round has passed.              *)

MaxCadenceRounds == 3    \* voting rounds the clock goes through in SpecCadence

CadenceSteps == {TickSec - 3, TickSec, votingEpochDurationSec + TickSec}

InitCadence ==
  /\ InitCommon(registerAccounts(1), VotersOf(registerAccounts(1)))
  /\ now = StartRound
  /\ env = [NoEnv EXCEPT !.SKIP_VOTING_EPOCH_ACTIONS = TRUE, !.SKIP_FINALIZATIONS = TRUE]
  /\ spTimer = NoTimer
  /\ vrTimer = nextVotingEpochStartMs(rewardEpochStartMs(1))
  /\ orTimer = NoTimer
  /\ orRuns = <<>>

NextCadence ==
  \/ \E step \in CadenceSteps :
       Tick(step, StartRound + MaxCadenceRounds * votingEpochDurationSec)
  \/ VrStart
  \/ \E r \in 1..Len(vrRuns) :
       \/ VrAwaitInit(r)
       \/ VrGetRoot(r)
       \/ VrSleepDeadline(r)

SpecCadence == InitCadence /\ [][NextCadence]_vars

\* the delay of the start of a run after the start of its round
offset(run) == run.now - votingEpochStartMs(run.votingRoundId)

\* each run is for the round that contains its start; the rounds of successive runs
\* increase, by one when the later run starts within the round after the earlier one;
\* the pending timer is set to the start of the round after the last run's start
C21_RoundsOfRuns ==
  /\ \A r \in 1..Len(vrRuns) :
       /\ vrRuns[r].votingRoundId = votingEpochForTime(vrRuns[r].now)
       /\ offset(vrRuns[r]) >= 0 /\ offset(vrRuns[r]) < votingEpochDurationSec
  /\ \A r \in 1..(Len(vrRuns) - 1) :
       /\ vrRuns[r].votingRoundId < vrRuns[r + 1].votingRoundId
       /\ vrRuns[r + 1].now < votingEpochStartMs(vrRuns[r].votingRoundId + 2) =>
            vrRuns[r + 1].votingRoundId = vrRuns[r].votingRoundId + 1
  /\ vrRuns # <<>> =>
       vrTimer = votingEpochStartMs(votingEpochForTime(vrRuns[Len(vrRuns)].now) + 1)

\* a firing starts one run, at or after the deadline of the timer, which is the start
\* of a round; the delay of the run is the delay of this firing alone, whatever the
\* delay of the run before
C21_Firing ==
  Len(vrRuns') > Len(vrRuns) =>
    LET run == vrRuns'[Len(vrRuns')]
    IN /\ Len(vrRuns') = Len(vrRuns) + 1
       /\ vrTimer = votingEpochStartMs(votingEpochForTime(vrTimer))
       /\ run.now = now /\ now >= vrTimer
       /\ now < votingEpochStartMs(votingEpochForTime(vrTimer) + 1) =>
            offset(run) = now - vrTimer
       /\ vrTimer' = votingEpochStartMs(run.votingRoundId + 1)

\* C21: the VotingRoundDriver is re-armed for the next round boundary computed at
\* the firing: the rounds of successive runs strictly increase, are consecutive when
\* each firing falls within its round, each run is for the round of its start, and the
\* delay of a firing is not carried over to the next one.
C21_CadenceWithoutDrift == [](C21_RoundsOfRuns) /\ [][C21_Firing]_vars

\* three runs: the second starts late in the round after the first, the third starts
\* with a smaller delay in the round after the second
C21_Witness ==
  \E r \in 1..Len(vrRuns) :
    /\ r + 2 <= Len(vrRuns)
    /\ vrRuns[r + 1].votingRoundId = vrRuns[r].votingRoundId + 1
    /\ vrRuns[r + 2].votingRoundId = vrRuns[r + 1].votingRoundId + 1
    /\ offset(vrRuns[r + 1]) > 0
    /\ offset(vrRuns[r + 2]) < offset(vrRuns[r + 1])

----------------------------------------------------------------------------
(* SpecSiblings: the LedgerWatcher and the three drivers together, from    *)
(* the first firing of the SigningPolicyDriver on.  At that time the run   *)
(* of the voting round before the current one sleeps until its deadline.   *)
(* The clock advances by the time from that firing to the firing of the   *)
(* RewardOfferingScheduler, one second after the reward epoch start; the   *)
(* voting rounds skip their submissions.                                   *)

MaxTicksSiblings == 1    \* clock steps taken in SpecSiblings
MaxSiblingLedger == 3    \* entries recorded in the ledger in SpecSiblings

SiblingNames == {RAS, VPBS, RES}
SiblingStep == newSigningPolicyInitializationStartSeconds + 1

\* The authority goes through a reward epoch in one order: it starts the epoch, then
\* starts the random acquisition, selects the vote power block and publishes the
\* signing policy, each once.  The list of a reward epoch is a prefix of that order,
\* without its first event when the epoch had started before the watcher did.
epochOrder == <<RES, RAS, VPBS, SPI>>
inEpochOrder(list) ==
  \E n \in 0..Len(epochOrder) :
    \/ list = SubSeq(epochOrder, 1, n)
    \/ n >= 1 /\ list = SubSeq(epochOrder, 2, n)
InProtocolOrder(rewardEvents) == \A e \in DOMAIN rewardEvents : inEpochOrder(rewardEvents[e])

\* the run of runVotingRound that the timer started at the start of the round before
\* the one of the given time, after its getConfirmedMerkleRoot call
SleepingRound(t, skipFinalisation) ==
  LET start == votingEpochStartMs(votingEpochForTime(t) - 1)
  IN [now |-> start,
      votingRoundId |-> votingEpochForTime(start),
      rewardEpochId |-> rewardEpochForTime(start),
      skipSubmit |-> TRUE,
      skipFinalisation |-> skipFinalisation,
      pc |-> "sleepDeadline", i |-> 1, log |-> <<>>]

InitSiblings ==
  /\ chainEpoch = 1
  /\ initializedVotingRound = 0
  /\ rewardEpochEvents = <<>>
  /\ registeredAccounts = registerAccounts(1)
  /\ signingPolicies = InitialPolicies(VotersOf(registerAccounts(1)))
  /\ watcher = [pc |-> "daemonize", blockTimestamp |-> 0, policyEpoch |-> 0]
  /\ now = StartPolicy
  /\ env = [NoEnv EXCEPT !.SKIP_VOTING_EPOCH_ACTIONS = TRUE]
  /\ spTimer = StartPolicy
  /\ spRuns = <<>>
  /\ vrTimer = nextVotingEpochStartMs(StartPolicy)
  /\ vrRuns = <<SleepingRound(StartPolicy, FALSE)>>
  /\ orTimer = nextRewardEpochStartMs(StartPolicy) + 1
  /\ orRuns = <<ForcedOffers(1, TRUE)>>

SpStep(r) ==
  \/ SpGetEpoch(r)
  \/ SpAwaitRandom(r)
  \/ SpCheckRandom(r)
  \/ SpAwaitVPB(r)
  \/ SpRegister(r)
  \/ SpAwaitSPI(r)
  \/ SpGetHash(r)
  \/ SpSign(r)

NextSiblings ==
  \/ Tick(SiblingStep, StartPolicy + MaxTicksSiblings * SiblingStep)
  \/ Daemonize
  \/ ProcessResponse(SiblingNames, 1, {LocalVoters}, {}, MaxSiblingLedger)
       /\ InProtocolOrder(rewardEpochEvents')
  \/ SpStart
  \/ \E r \in 1..Len(spRuns) : SpStep(r)
  \/ VrStart
  \/ \E r \in 1..Len(vrRuns) :
       \/ VrAwaitInit(r)
       \/ VrGetRoot(r)
       \/ VrSleepDeadline(r)
       \/ FakeFinalize(r)
       \/ Relay(r)
  \/ OrStart
  \/ \E r \in 1..Len(orRuns) :
       \/ OrAwait(r)
       \/ OrOffer(r)

SpecSiblings == InitSiblings /\ [][NextSiblings]_vars


\* the event that a run of defineNextSigningPolicy awaits at its wait loops
awaited(run) ==
  CASE run.pc = "awaitRandom" -> RAS
    [] run.pc = "awaitVPB" -> VPBS
    [] run.pc = "awaitSPI" -> SPI
    [] OTHER -> "none"

\* the run is in a wait loop and its event is not in the list of its reward epoch
blocked(r) ==
  /\ spRuns[r].pc \in {"awaitRandom", "awaitVPB", "awaitSPI"}
  /\ ~hasEvent(rewardEpochEvents, spRuns[r].rewardEpochId, awaited(spRuns[r]))

\* a blocked run has no step to take and has made none of the calls after its wait;
\* while a run is blocked the LedgerWatcher can poll and read, a timer that is due
\* fires, the timer of the next SigningPolicyDriver run is pending, and the runs of
\* the other drivers can take their next step
C22_BlockedRunWaits ==
  /\ \A r \in 1..Len(spRuns) :
       blocked(r) =>
         /\ ~ENABLED SpStep(r)
         /\ spRuns[r].pc = "awaitRandom" => spRuns[r].log = <<>>
         /\ spRuns[r].pc = "awaitVPB" =>
              \A k \in 1..Len(spRuns[r].log) : spRuns[r].log[k].op = "random"
         /\ \A k \in 1..Len(spRuns[r].log) :
              spRuns[r].log[k].op \notin {"toSigningPolicyHash", "signNewSigningPolicy"}
  /\ (\E r \in 1..Len(spRuns) : blocked(r)) =>
       /\ watcher.pc = "daemonize" => ENABLED Daemonize
       /\ watcher.pc = "getBlock" =>
            ENABLED ProcessResponse(SiblingNames, 1, {LocalVoters}, {}, MaxSiblingLedger)
       /\ spTimer # NoTimer
       /\ TimerDue(spTimer) => ENABLED SpStart
       /\ TimerDue(vrTimer) => ENABLED VrStart
       /\ TimerDue(orTimer) => ENABLED OrStart
       /\ \A q \in 1..Len(vrRuns) :
            /\ vrRuns[q].pc = "getRoot" => ENABLED VrGetRoot(q)
            /\ vrRuns[q].pc = "sleepDeadline" /\ now >= revealDeadlineMs(vrRuns[q].votingRoundId) =>
                 ENABLED VrSleepDeadline(q)
            /\ vrRuns[q].pc = "finalize" => ENABLED FakeFinalize(q)
            /\ vrRuns[q].pc = "relay" => ENABLED Relay(q)
       /\ \A q \in 1..Len(orRuns) :
            /\ orRuns[q].pc = "awaitStart" /\
                 hasEvent(rewardEpochEvents, orRuns[q].nextRewardEpochId - 1, RES) =>
                   ENABLED OrAwait(q)
            /\ orRuns[q].pc = "offer" => ENABLED OrOffer(q)

\* no step changes a run that is blocked
C22_BlockedStep ==
  \A r \in 1..Len(spRuns) : blocked(r) => spRuns'[r] = spRuns[r]

driverStep ==
  \/ spRuns' # spRuns \/ spTimer' # spTimer
  \/ vrRuns' # vrRuns \/ vrTimer' # vrTimer
  \/ orRuns' # orRuns \/ orTimer' # orTimer

\* a step of a driver leaves the event lists, the latest initialized round and the
\* policy map as they are; a step that changes one of them is the LedgerWatcher's
\* reading of a heartbeat
C23_DriverStepKeepsLedger ==
  /\ driverStep =>
       /\ rewardEpochEvents' = rewardEpochEvents
       /\ initializedVotingRound' = initializedVotingRound
       /\ signingPolicies' = signingPolicies
  /\ ledgerVars' # ledgerVars =>
       /\ watcher.pc = "getBlock" /\ watcher'.pc = "daemonize"
       /\ ~driverStep

\* C23: once the drivers run, the event ledger and the policy map are written by the
\* LedgerWatcher only: every step of the SigningPolicyDriver, the VotingRoundDriver,
\* the finalization and the RewardOfferingScheduler leaves them unchanged.
C23_OnlyWatcherWritesLedger == [][C23_DriverStepKeepsLedger]_vars

\* the watcher has recorded events and installed the policy of reward epoch 2, and
\* each driver has taken steps: a signature, a finalization, and a run of the
\* scheduler started by its timer
C23_Witness ==
  /\ MapHas(signingPolicies, 2)
  /\ LedgerSize(rewardEpochEvents) >= 3
  /\ \E r \in 1..Len(spRuns) : signatures(spRuns[r]) # <<>>
  /\ \E r \in 1..Len(vrRuns) : Count(vrRuns[r], "fakeFinalize") = 1 /\ Count(vrRuns[r], "relay") = 1
  /\ scheduled # {}

----------------------------------------------------------------------------
(* The ledger entry and the policy of SigningPolicyInitialized, under      *)
(* SpecPolicy                                                              *)

\* the policies that the watcher has installed: those after the two of the setup
installed == {p \in DOMAIN signingPolicies : p > 1}

\* every policy of the map is under its own reward epoch; processLog on a
\* SigningPolicyInitialized event gives the entry and the policy together; with such
\* an entry in the ledger, and for a run that has passed its wait for it, the map
\* holds a policy that the watcher installed
C24_PolicyWithEntry ==
  /\ \A p \in DOMAIN signingPolicies : signingPolicies[p].rewardEpochId = p
  /\ \A ts \in Timestamps :
       LET policy == PolicyArgs(chainEpoch + 1, LocalVoters)
           st == processLog(RelayLog(chainEpoch + 1, LocalVoters), ts, Store)
       IN /\ hasEvent(st.rewardEpochEvents, rewardEpochForTime(ts), SPI)
          /\ MapHas(st.signingPolicies, policy.rewardEpochId)
          /\ st.signingPolicies[policy.rewardEpochId] = extractSigningPolicy(policy)
  /\ (\E e \in DOMAIN rewardEpochEvents : hasEvent(rewardEpochEvents, e, SPI)) =>
       installed # {}
  /\ \A r \in 1..Len(spRuns) :
       spRuns[r].pc \in {"getHash", "sign"} => installed # {}

\* the step that adds a SigningPolicyInitialized entry to a list also puts the policy
\* of the heartbeat into the map, under the policy's reward epoch
C24_EntryStep ==
  \A e \in DOMAIN rewardEpochEvents' :
    Occurrences(rewardEpochEvents'[e], SPI) > Occurrences(get(rewardEpochEvents, e), SPI) =>
      /\ MapHas(signingPolicies', watcher.policyEpoch)
      /\ signingPolicies'[watcher.policyEpoch] =
           extractSigningPolicy(PolicyArgs(watcher.policyEpoch, LocalVoters))

\* C24: the ledger entry and the installation of the policy of a
\* SigningPolicyInitialized event are one step for the drivers: in every state with
\* such an entry recorded by the watcher, the policy map holds the policy of the event
\* under the policy's own reward epoch.
C24_EntryAndPolicyTogether == [](C24_PolicyWithEntry) /\ [][C24_EntryStep]_vars

\* a run has left its wait for SigningPolicyInitialized and the policy of reward
\* epoch 2 is in the map
C24_Witness ==
  /\ \E r \in 1..Len(spRuns) :
       /\ spRuns[r].pc = "getHash"
       /\ hasEvent(rewardEpochEvents, spRuns[r].rewardEpochId, SPI)
  /\ MapHas(signingPolicies, 2)
  /\ signingPolicies[2].voters = LocalVoters

----------------------------------------------------------------------------
(* SpecEpochChange: the VotingRoundDriver and the LedgerWatcher around the *)
(* start of reward epoch 2, from the last voting round of reward epoch 1   *)
(* on.  The authority may publish the policy of the next reward epoch.     *)

MaxTicksChange == 5      \* clock steps taken in SpecEpochChange
MaxChangeLedger == 1     \* entries recorded in the ledger in SpecEpochChange

StartChange == rewardEpochStartMs(2) - votingEpochDurationSec

InitEpochChange ==
  /\ InitCommon(registerAccounts(1), VotersOf(registerAccounts(1)))
  /\ now = StartChange
  /\ env = [NoEnv EXCEPT !.SKIP_VOTING_EPOCH_ACTIONS = TRUE]
  /\ spTimer = NoTimer
  /\ vrTimer = StartChange
  /\ orTimer = NoTimer
  /\ orRuns = <<>>

NextEpochChange ==
  \/ Tick(TickSec, StartChange + MaxTicksChange * TickSec)
  \/ Daemonize
  \/ ProcessResponse({}, 0, {LocalVoters}, {}, MaxChangeLedger)
  \/ VrStart
  \/ \E r \in 1..Len(vrRuns) :
       \/ VrAwaitInit(r)
       \/ VrGetRoot(r)
       \/ VrSleepDeadline(r)
       \/ FakeFinalize(r)
       \/ Relay(r)

SpecEpochChange == InitEpochChange /\ [][NextEpochChange]_vars

\* C25: the finalization of a run is for the round and the reward epoch of the start
\* of the run: the votingRoundId of its message is the round of the run, and the
\* policy it signs under is the one of the reward epoch of that round, whatever the
\* round and the reward epoch at the time of the finalization.
C25_FinalizationBoundToRun ==
  \A r \in 1..Len(vrRuns) :
    \A k \in 1..Len(vrRuns[r].log) :
      LET run == vrRuns[r]
          e == run.log[k]
      IN e.op = "fakeFinalize" /\ e.ok =>
           /\ e.votingRoundId = run.votingRoundId
           /\ e.votingRoundId = votingEpochForTime(run.now)
           /\ e.signingPolicy.rewardEpochId = rewardEpochForTime(run.now)
           /\ e.signingPolicy.rewardEpochId =
                rewardEpochForTime(votingEpochStartMs(run.votingRoundId))
           /\ e.signingPolicy = signingPolicies[run.rewardEpochId]

\* the run of the last round of reward epoch 1 has made its finalization, which it can
\* only do in reward epoch 2, with the policy of reward epoch 2 in the map
C25_Witness ==
  \E r \in 1..Len(vrRuns) :
    /\ vrRuns[r].rewardEpochId = 1
    /\ revealDeadlineMs(vrRuns[r].votingRoundId) >= rewardEpochStartMs(2)
    /\ Count(vrRuns[r], "fakeFinalize") = 1
    /\ vrRuns[r].pc \in {"relay", "finished"}
    /\ MapHas(signingPolicies, 2)
    /\ rewardEpochForTime(now) = 2
    /\ votingEpochForTime(now) > vrRuns[r].votingRoundId

\* C26: a run that calls fakeFinalize finds a policy of the reward epoch of its round
\* in the policy map, and no run ends on a missing policy.
C26_PolicyPresentAtFinalization ==
  \A r \in 1..Len(vrRuns) :
    /\ vrRuns[r].pc = "finalize" => MapHas(signingPolicies, rewardEpochForTime(vrRuns[r].now))
    /\ vrRuns[r].pc # "crashed"

====
